---- MODULE Spec2Model ----
(***************************************************************************)
(* ampd command surface (src/ampd/src/main.rs, src/ampd/src/cli.rs).       *)
(*                                                                         *)
(* Each element of Runs is one operating-system process executing one ampd *)
(* sub-command (bond-worker, declare-chain-support, register-public-key,   *)
(* worker-address) against the same state file, the same tofnd signer and  *)
(* the same chain node.  Two processes may run at the same time; once a    *)
(* process has exited the operator may start the next command in its       *)
(* place.  Every network round trip (an .await on an RPC) is               *)
(* one atomic action; the local computation up to the next round trip is   *)
(* part of the action that precedes it, except where a claim is about its  *)
(* position (message assembly, handler lookup).                            *)
(*                                                                         *)
(* Option<T> is modelled as a sequence of length at most one: <<>> is      *)
(* None, <<x>> is Some(x).                                                 *)
(*                                                                         *)
(* What main() does before it reaches a command or the daemon (argument    *)
(* parsing, init_config, the choice of the state path) is the second       *)
(* specification, StartupSpec: one process, with the home directory, the   *)
(* configuration files and the environment as its inputs.  A path is the   *)
(* sequence of its components.                                             *)
(***************************************************************************)
EXTENDS Naturals, Sequences, FiniteSets

VARIABLES
    pc,           \* pc[r]: position of run r in its command
    cmd,          \* cmd[r]: the parsed command line of run r
    state,        \* state[r]: the StateUpdater opened by pub_key()
    key,          \* key[r]: Option of the `pub_key` local of the command
    payload,      \* payload[r]: Option of the multisig key (register_public_key)
    tx,           \* tx[r]: Option of the MsgExecuteContract built by the command
    account,      \* account[r]: Option of the account returned by account()
    broadcaster,  \* broadcaster[r]: Option of the built broadcast client
    envelope,     \* envelope[r]: Option of the signed envelope
    report,       \* report[r]: frames of the error the run stopped with
    exit,         \* exit[r]: "running", "SUCCESS" (ExitCode::SUCCESS) or "PANIC"
    trace,        \* trace[r]: the run's calls as recorded by call-counting doubles
    disk,         \* Option of the public key held by the state file
    chain,        \* chain[a]: Option of the account the chain holds for address a
    launched      \* number of commands the operator has started

cmdVars == <<pc, cmd, state, key, payload, tx, account, broadcaster, envelope,
             report, exit, trace, disk, chain, launched>>

VARIABLES
    home,         \* Option of dirs::home_dir()
    fs,           \* fs[f]: what the configuration file at absolute path f holds
    environment,  \* whether the AMPD_* environment variables deserialize
    args,         \* the parsed Args of the process
    boot,         \* position of main() before the command or daemon body
    files,        \* the files find_config_files returned
    cfg,          \* Option of the Config init_config returned
    entered,      \* Option of what the entry point was called with
    logs          \* error events written by init_config

startupVars == <<home, fs, environment, args, boot, files, cfg, entered, logs>>

vars == <<cmdVars, startupVars>>

(***************************************************************************)
(* Bounds and fixtures                                                     *)
(***************************************************************************)
MaxLaunches == 2             \* commands the operator starts in all
Runs == {1, 2}               \* processes that can be alive at the same time

PREFIX == "axelar"

KeyUid == "op-key"              \* tofnd_config.key_uid of the loaded Config
MultisigAddr == "axelar1multisig"
OtherMultisigAddr == "axelar1multisig2"  \* a second MultisigSigner handler
RegistryAddr == "axelar1registry"

\* The signer is deterministic per key uid.
Keygen(uid) == IF uid = KeyUid THEN "K" ELSE "M"
OldKey == "K_OLD"               \* a key cached by an earlier installation

\* PublicKey::account_id(prefix): bech32 of the prefix and the key's hash.
Hash160(k) == CASE k = "K" -> "h(K)" [] k = "M" -> "h(M)" [] OTHER -> "h(K_OLD)"
AccountIdOf(k, prefix) == <<prefix, Hash160(k)>>

Addresses == {AccountIdOf(k, PREFIX) : k \in {"K", OldKey}}

Kinds == {"bond_worker", "declare_chain_support", "register_public_key",
          "worker_address"}
Broadcasting == Kinds \ {"worker_address"}

Commands ==
    [kind : {"bond_worker"}, service_registry : {RegistryAddr, "not-an-address"},
     service_name : {"", "svc-1"}, denom : {"uaxl", "1"}, handlers : {<<>>}]
    \cup
    [kind : {"declare_chain_support"},
     service_registry : {RegistryAddr, "not-an-address"},
     service_name : {"", "svc-1"}, denom : {"uaxl"}, handlers : {<<>>}]
    \cup
    [kind : {"register_public_key"}, service_registry : {RegistryAddr},
     service_name : {"svc-1"}, denom : {"uaxl"},
     handlers : {<<>>, <<MultisigAddr, OtherMultisigAddr>>}]
    \cup
    [kind : {"worker_address"}, service_registry : {RegistryAddr},
     service_name : {"svc-1"}, denom : {"uaxl"}, handlers : {<<>>}]

NoStateUpdater == [pub_key |-> <<>>, dirty |-> FALSE]

NoCmd == [kind |-> "none", service_registry |-> "", service_name |-> "",
          denom |-> "", handlers |-> <<>>]

(***************************************************************************)
(* Call log                                                                *)
(***************************************************************************)
Event(ev, arg, res) == [ev |-> ev, arg |-> arg, res |-> res]
Log(r, ev, arg, res) == trace' = [trace EXCEPT ![r] = Append(@, Event(ev, arg, res))]

RpcEvents == {"connect_signer", "keygen", "connect_query", "account",
              "connect_service", "sign", "submit"}

Select(s, ev) == SelectSeq(s, LAMBDA e : e.ev = ev)
Count(r, ev) == Len(Select(trace[r], ev))
RpcCount(r) == Len(SelectSeq(trace[r], LAMBDA e : e.ev \in RpcEvents))
KeygenCount(r, uid) ==
    Len(SelectSeq(trace[r], LAMBDA e : e.ev = "keygen" /\ e.arg = <<uid>>))

(***************************************************************************)
(* Errors: an error_stack Report is the list of its frames, newest first.  *)
(***************************************************************************)
NoReport == <<>>
NewReport(err) == <<err>>

\* Report::change_context / ResultExt::change_context: the new context is
\* pushed on top of the frames the report already carries.
ChangeContextDropsCause(rep, ctx) == <<ctx>>
ChangeContext(rep, ctx) == <<ctx>> \o rep

Goto(r, next) ==
    /\ pc' = [pc EXCEPT ![r] = next]
    /\ UNCHANGED <<exit, report>>

\* A panic (unwrap / expect on an Err or None) ends the process.
Panic(r, rep) ==
    /\ pc' = [pc EXCEPT ![r] = "panicked"]
    /\ exit' = [exit EXCEPT ![r] = "PANIC"]
    /\ report' = [report EXCEPT ![r] = rep]

\* The cli function returns and main's wrapper returns ExitCode::SUCCESS.
Finish(r) ==
    /\ pc' = [pc EXCEPT ![r] = "done"]
    /\ exit' = [exit EXCEPT ![r] = "SUCCESS"]
    /\ UNCHANGED report

UnwrapIgnoresErr(r, res, rep, next) == Goto(r, next)
Unwrap(r, res, rep, next) == IF res = "ok" THEN Goto(r, next) ELSE Panic(r, rep)

(***************************************************************************)
(* main.rs: argument conversion before the cli function is called          *)
(***************************************************************************)
\* Coin::new(amount, denom): the denom must be a valid Cosmos denom.
CoinNew(denom) == IF denom = "uaxl" THEN "ok" ELSE "InvalidDenom"

\* str::parse::<AccountId>: the string must be a bech32 account id.
ParseAccountId(s) ==
    IF s \in {RegistryAddr, MultisigAddr, OtherMultisigAddr} THEN "ok"
    ELSE "InvalidAccountId"

\* The first failing unwrap of main::bond_worker / main::declare_chain_support,
\* "ok" when the cli function is reached.
MainArgs(c) ==
    CASE c.kind = "bond_worker" ->
            IF CoinNew(c.denom) # "ok" THEN CoinNew(c.denom)
            ELSE ParseAccountId(c.service_registry)
      [] c.kind = "declare_chain_support" -> ParseAccountId(c.service_registry)
      [] OTHER -> "ok"

Exited(r) == pc[r] \in {"done", "panicked"}

\* main(): a new process parses its command line and dispatches on args.cmd.
Launch(r) ==
    /\ pc[r] = "init" \/ Exited(r)
    /\ launched < MaxLaunches
    /\ launched' = launched + 1
    /\ \E c \in Commands :
          /\ cmd' = [cmd EXCEPT ![r] = c]
          /\ IF MainArgs(c) = "ok"
             THEN /\ pc' = [pc EXCEPT ![r] = "connect_signer"]
                  /\ exit' = [exit EXCEPT ![r] = "running"]
                  /\ report' = [report EXCEPT ![r] = NoReport]
             ELSE Panic(r, NewReport(MainArgs(c)))
    /\ state' = [state EXCEPT ![r] = NoStateUpdater]
    /\ key' = [key EXCEPT ![r] = <<>>]
    /\ payload' = [payload EXCEPT ![r] = <<>>]
    /\ tx' = [tx EXCEPT ![r] = <<>>]
    /\ account' = [account EXCEPT ![r] = <<>>]
    /\ broadcaster' = [broadcaster EXCEPT ![r] = <<>>]
    /\ envelope' = [envelope EXCEPT ![r] = <<>>]
    /\ trace' = [trace EXCEPT ![r] = <<>>]
    /\ UNCHANGED <<disk, chain>>

(***************************************************************************)
(* cli.rs: signer session                                                  *)
(***************************************************************************)
ConnectSigner(r) ==
    /\ pc[r] = "connect_signer"
    /\ \E res \in {"ok", "ConnectionError"} :
          /\ Log(r, "connect_signer", <<>>, res)
          /\ Unwrap(r, res, ChangeContext(NewReport(res), "Connection"),
                    "open_state")
    /\ UNCHANGED <<cmd, state, key, payload, tx, account, broadcaster,
                   envelope, disk, chain, launched>>

(***************************************************************************)
(* cli.rs: pub_key(state_path, key_uid, ecdsa_client)                      *)
(***************************************************************************)
\* StateUpdater::new(state_path): the in-memory State loaded from the file.
NewStateUpdater(d) == [pub_key |-> d, dirty |-> FALSE]

\* state_updater.as_mut().pub_key = Some(pub_key)
SetPubKeyForgotten(su, k) == su
SetPubKey(su, k) == [pub_key |-> <<k>>, dirty |-> TRUE]

\* The StateUpdater going out of scope at the end of pub_key(): a pending
\* in-memory mutation is written to the state file.
Flush(su, d) == IF su.dirty THEN su.pub_key ELSE d
Writes(su) == IF su.dirty THEN <<Event("write", su.pub_key, "ok")>> ELSE <<>>

\* Where the command continues once pub_key() has returned Ok.
AfterPubKeySkipsAssembly(kind) ==
    CASE kind = "worker_address" -> "print"
      [] kind = "register_public_key" -> "find_multisig"
      [] OTHER -> "connect_query"
AfterPubKeyOnlyPrints(kind) == "print"
AfterPubKeyAlwaysBroadcasts(kind) ==
    CASE kind = "register_public_key" -> "find_multisig"
      [] OTHER -> "assemble"
AfterPubKey(kind) ==
    CASE kind = "worker_address" -> "print"
      [] kind = "register_public_key" -> "find_multisig"
      [] OTHER -> "assemble"

\* match state_updater.state().pub_key: Some(k) is returned as it is; None
\* sends the function on to keygen.
CachedKeyRegenerated(su) == <<>>
CachedKey(su) == su.pub_key

\* StateUpdater::new(state_path).change_context(Error::StateUpdater)?: an Err
\* leaves pub_key() at once, an Ok gives the updater to work with.
OpenedStateOrDefault(res, d) ==
    IF res = "ok" THEN <<NewStateUpdater(d)>> ELSE <<NoStateUpdater>>
OpenedState(res, d) == IF res = "ok" THEN <<NewStateUpdater(d)>> ELSE <<>>

\* pub_key() up to its first await: open the state, return a cached key.
OpenState(r) ==
    /\ pc[r] = "open_state"
    /\ \E res \in {"ok", "Io", "Parse"} :
          /\ Log(r, "open_state", IF res = "ok" THEN disk ELSE <<>>, res)
          /\ IF OpenedState(res, disk) = <<>>
             THEN /\ Panic(r, ChangeContext(NewReport(res), "StateUpdater"))
                  /\ UNCHANGED <<state, key>>
             ELSE LET su == OpenedState(res, disk)[1] IN
                  /\ state' = [state EXCEPT ![r] = su]
                  /\ key' = [key EXCEPT ![r] = CachedKey(su)]
                  /\ Goto(r, IF CachedKey(su) # <<>>
                             THEN AfterPubKey(cmd[r].kind) ELSE "keygen")
    /\ UNCHANGED <<cmd, payload, tx, account, broadcaster, envelope, disk, chain, launched>>

\* pub_key(), None branch: keygen, store, return; the StateUpdater is dropped.
KeygenStep(r) ==
    /\ pc[r] = "keygen"
    /\ \E res \in {"ok", "KeygenError"} :
          LET su == IF res = "ok" THEN SetPubKey(state[r], Keygen(KeyUid))
                    ELSE state[r]
          IN
          /\ trace' = [trace EXCEPT ![r] =
                          Append(@, Event("keygen", <<KeyUid>>, res)) \o Writes(su)]
          /\ state' = [state EXCEPT ![r] = su]
          /\ disk' = Flush(su, disk)
          /\ key' = [key EXCEPT ![r] =
                        IF res = "ok" THEN <<Keygen(KeyUid)>> ELSE <<>>]
          /\ Unwrap(r, res, ChangeContext(NewReport(res), "Tofnd"),
                    AfterPubKey(cmd[r].kind))
    /\ UNCHANGED <<cmd, payload, tx, account, broadcaster, envelope, chain, launched>>

(***************************************************************************)
(* cli.rs: worker_address                                                  *)
(***************************************************************************)
PrintAddress(r) ==
    /\ pc[r] = "print"
    /\ Log(r, "print", AccountIdOf(key[r][1], PREFIX), "ok")
    /\ Finish(r)
    /\ UNCHANGED <<cmd, state, key, payload, tx, account, broadcaster,
                   envelope, disk, chain, launched>>

(***************************************************************************)
(* cli.rs: register_public_key, lines 179-198                              *)
(***************************************************************************)
\* handlers.iter().filter_map(MultisigSigner { cosmwasm_contract }).next()
MultisigAddressLast(handlers) ==
    IF handlers = <<>> THEN <<>> ELSE <<handlers[Len(handlers)]>>
MultisigAddress(handlers) == IF handlers = <<>> THEN <<>> ELSE <<Head(handlers)>>

FindMultisig(r) ==
    /\ pc[r] = "find_multisig"
    /\ IF MultisigAddress(cmd[r].handlers) = <<>>
       THEN Panic(r, NewReport("No multisig signer found in handlers"))
       ELSE Goto(r, "multisig_keygen")
    /\ UNCHANGED <<cmd, state, key, payload, tx, account, broadcaster,
                   envelope, trace, disk, chain, launched>>

MultisigKeygen(r) ==
    /\ pc[r] = "multisig_keygen"
    /\ \E res \in {"ok", "KeygenError"} :
          LET addr == MultisigAddress(cmd[r].handlers)[1] IN
          /\ Log(r, "keygen", <<addr>>, res)
          /\ payload' = [payload EXCEPT ![r] =
                            IF res = "ok" THEN <<Keygen(addr)>> ELSE <<>>]
          /\ Unwrap(r, res, NewReport(res), "assemble")
    /\ UNCHANGED <<cmd, state, key, tx, account, broadcaster, envelope,
                   disk, chain, launched>>

(***************************************************************************)
(* cli.rs: the MsgExecuteContract of each command                          *)
(***************************************************************************)
\* serde_json::to_vec(&ExecuteMsg::...) of the command's message.
ExecuteMsg(c, pl) ==
    CASE c.kind = "bond_worker" ->
            [action |-> "BondWorker", service_name |-> c.service_name,
             public_key |-> <<>>]
      [] c.kind = "declare_chain_support" ->
            [action |-> "DeclareChainSupport", service_name |-> c.service_name,
             public_key |-> <<>>]
      [] OTHER ->
            [action |-> "RegisterPublicKey", service_name |-> "",
             public_key |-> pl]

Contract(c) ==
    IF c.kind = "register_public_key" THEN MultisigAddress(c.handlers)[1]
    ELSE c.service_registry

Funds(c) == IF c.kind = "bond_worker" THEN <<c.denom>> ELSE <<>>

MsgExecuteContractSenderFromPayload(c, k, pl) ==
    [sender |-> AccountIdOf(IF pl # <<>> THEN pl[1] ELSE k, PREFIX),
     contract |-> Contract(c), msg |-> ExecuteMsg(c, pl), funds |-> Funds(c)]
MsgExecuteContract(c, k, pl) ==
    [sender |-> AccountIdOf(k, PREFIX), contract |-> Contract(c),
     msg |-> ExecuteMsg(c, pl), funds |-> Funds(c)]

Assemble(r) ==
    /\ pc[r] = "assemble"
    /\ tx' = [tx EXCEPT ![r] = <<MsgExecuteContract(cmd[r], key[r][1], payload[r])>>]
    /\ Log(r, "assemble", <<>>, "ok")
    /\ Goto(r, "connect_query")
    /\ UNCHANGED <<cmd, state, key, payload, account, broadcaster, envelope,
                   disk, chain, launched>>

(***************************************************************************)
(* cli.rs: broadcast_execute_contract                                      *)
(***************************************************************************)
ConnectQuery(r) ==
    /\ pc[r] = "connect_query"
    /\ \E res \in {"ok", "ConnectionError"} :
          /\ Log(r, "connect_query", <<>>, res)
          /\ Unwrap(r, res, ChangeContext(NewReport(res), "Connection"), "account")
    /\ UNCHANGED <<cmd, state, key, payload, tx, account, broadcaster,
                   envelope, disk, chain, launched>>

\* let worker = pub_key.account_id(PREFIX)...into()
Worker(k) == AccountIdOf(k, PREFIX)

\* broadcaster::accounts::account(query_client, &worker): the chain's answer.
AccountResponse(transport, a) ==
    IF transport THEN "Transport"
    ELSE IF a \notin DOMAIN chain \/ chain[a] = <<>> THEN "NotFound" ELSE "ok"

AccountQuery(r) ==
    /\ pc[r] = "account"
    /\ \E transport \in BOOLEAN :
          LET worker == Worker(key[r][1])
              res == AccountResponse(transport, worker)
          IN
          /\ Log(r, "account", worker, res)
          /\ account' = [account EXCEPT ![r] =
                            IF res = "ok" THEN chain[worker] ELSE <<>>]
          /\ Unwrap(r, res, ChangeContext(NewReport(res), "Broadcaster"),
                    "connect_service")
    /\ UNCHANGED <<cmd, state, key, payload, tx, broadcaster, envelope,
                   disk, chain, launched>>

\* BroadcastClientBuilder::default()...acc_number(..).acc_sequence(..)
\*     .pub_key((key_uid, pub_key))...build()
BroadcasterWithDefaults(acc, key_uid, k) ==
    [acc_number |-> 0, acc_sequence |-> 0, key_uid |-> key_uid, pub_key |-> k]
BuildBroadcaster(acc, key_uid, k) ==
    [acc_number |-> acc.account_number, acc_sequence |-> acc.sequence,
     key_uid |-> key_uid, pub_key |-> k]

ConnectService(r) ==
    /\ pc[r] = "connect_service"
    /\ \E res \in {"ok", "ConnectionError"} :
          /\ Log(r, "connect_service", <<>>, res)
          /\ broadcaster' = [broadcaster EXCEPT ![r] =
                IF res = "ok"
                THEN <<BuildBroadcaster(account[r][1], KeyUid, key[r][1])>>
                ELSE <<>>]
          /\ Unwrap(r, res, ChangeContext(NewReport(res), "Connection"), "sign")
    /\ UNCHANGED <<cmd, state, key, payload, tx, account, envelope, disk, chain, launched>>

\* broadcaster.broadcast(vec![tx]).await.unwrap(), then main's ExitCode::SUCCESS
BroadcastResultDiscarded(r, res) == Finish(r)
BroadcastResult(r, res) ==
    IF res = "ok" THEN Finish(r) ELSE Panic(r, NewReport(res))

(***************************************************************************)
(* Broadcaster::broadcast: sign the assembled messages with the account    *)
(* number and sequence the client was built with, then submit once.        *)
(***************************************************************************)
SignedEnvelope(b, msgs) ==
    [msgs |-> msgs, account_number |-> b.acc_number, sequence |-> b.acc_sequence,
     signer |-> AccountIdOf(b.pub_key, PREFIX), signed_by |-> Keygen(b.key_uid)]

BroadcastSign(r) ==
    /\ pc[r] = "sign"
    /\ \E res \in {"ok", "SignError"} :
          /\ Log(r, "sign", <<broadcaster[r][1].key_uid>>, res)
          /\ envelope' = [envelope EXCEPT ![r] =
                IF res = "ok" THEN <<SignedEnvelope(broadcaster[r][1], tx[r])>>
                ELSE <<>>]
          /\ IF res = "ok" THEN Goto(r, "submit") ELSE BroadcastResult(r, res)
    /\ UNCHANGED <<cmd, state, key, payload, tx, account, broadcaster,
                   disk, chain, launched>>

\* The chain's immediate answer to a broadcast: it accepts an envelope that
\* carries the account's next sequence and then advances the sequence.
SubmitResponse(other, env) ==
    IF other THEN "Other"
    ELSE IF /\ env.signer \in DOMAIN chain
            /\ chain[env.signer] # <<>>
            /\ chain[env.signer][1].account_number = env.account_number
            /\ chain[env.signer][1].sequence = env.sequence
         THEN "ok" ELSE "SequenceMismatch"

BroadcastSubmit(r) ==
    /\ pc[r] = "submit"
    /\ \E other \in BOOLEAN :
          LET env == envelope[r][1]
              res == SubmitResponse(other, env)
          IN
          /\ Log(r, "submit", <<>>, res)
          /\ chain' = IF res = "ok"
                      THEN [chain EXCEPT ![env.signer] =
                               <<[@[1] EXCEPT !.sequence = @ + 1]>>]
                      ELSE chain
          /\ BroadcastResult(r, res)
    /\ UNCHANGED <<cmd, state, key, payload, tx, account, broadcaster,
                   envelope, disk, launched>>

(***************************************************************************)
(* Specification                                                           *)
(***************************************************************************)
FundedChain ==
    [a \in Addresses |->
        <<[account_number |-> IF a = AccountIdOf("K", PREFIX) THEN 7 ELSE 8,
           sequence |-> 3]>>]
UnfundedChain == [a \in Addresses |-> <<>>]

(***************************************************************************)
(* main.rs: paths, configuration files and the state path                  *)
(***************************************************************************)
MaxConfigPaths == 2          \* --config options on one command line

Home == <<"/", "home", "op">>
Cwd == <<"/", "work">>

\* Args.config: the two defaults and a path that names no file.
ConfigPaths == {<<"~", ".ampd", "config.toml">>, <<"config.toml">>,
                <<"absent.toml">>}
\* Args.state: the default, a plain relative path, a first component that
\* merely begins with a tilde, and the tilde alone.
StatePaths == {<<"~", ".ampd", "state.json">>, <<"state.json">>,
               <<"~ampd", "state.json">>, <<"~">>}
\* The configuration files that can exist.
ConfigFiles == {Home \o <<".ampd", "config.toml">>, Cwd \o <<"config.toml">>}

SeqsUpTo(S, n) == UNION {[1..k -> S] : k \in 1..n}

\* Args::parse(): args.cmd is None, Some(Daemon) or Some(a command).
ArgsSet ==
    [config : SeqsUpTo(ConfigPaths, MaxConfigPaths), state : StatePaths,
     cmd : {<<>>, <<"daemon">>} \cup {<<k>> : k \in Kinds}]
NoArgs == [config |-> <<>>, state |-> <<>>, cmd |-> <<>>]
IsDaemon(a) == a.cmd \in {<<>>, <<"daemon">>}

\* expand_home_dir: Path::strip_prefix("~") matches a whole first component.
TildeLike == {"~", "~ampd"}
expand_home_dir_by_text(path, h) ==
    IF path # <<>> /\ Head(path) \in TildeLike /\ h # <<>>
    THEN h[1] \o Tail(path) ELSE path
expand_home_dir(path, h) ==
    IF path # <<>> /\ Head(path) = "~"
    THEN IF h = <<>> THEN path ELSE h[1] \o Tail(path)
    ELSE path

\* std::fs::canonicalize: the absolute path of an existing file, or an error
\* (the empty Option).
Absolute(path) == IF path # <<>> /\ Head(path) = "/" THEN path ELSE Cwd \o path
Contents(f) == IF f \in DOMAIN fs THEN fs[f] ELSE "missing"
canonicalize(path) ==
    IF Contents(Absolute(path)) # "missing" THEN <<Absolute(path)>> ELSE <<>>

\* Iterator::filter_map(Result::ok): the Ok values, in order.
RECURSIVE FilterMapOk(_)
FilterMapOk(rs) == IF rs = <<>> THEN <<>> ELSE Head(rs) \o FilterMapOk(Tail(rs))

find_config_files(config, h) ==
    FilterMapOk([i \in 1..Len(config) |->
                    canonicalize(expand_home_dir(config[i], h))])

\* parse_config: the files and the environment are merged and deserialized;
\* a Result is <<"Ok", value>> or <<"Err", report>>.
Config(fileseq) == [files |-> fileseq]
DefaultConfig == Config(<<>>)
parse_config(fileseq) ==
    IF /\ \A i \in 1..Len(fileseq) : Contents(fileseq[i]) = "good"
       /\ environment = "good"
    THEN <<"Ok", Config(fileseq)>>
    ELSE <<"Err", NewReport("ConfigError")>>

\* Result::unwrap_or, as the Option of the value the caller goes on with.
unwrap_or_abort(res, default) == IF res[1] = "Ok" THEN <<res[2]>> ELSE <<>>
unwrap_or(res, default) == IF res[1] = "Ok" THEN <<res[2]>> ELSE <<default>>

\* main(): Args::parse().
ParseArgs ==
    /\ boot = "start"
    /\ \E a \in ArgsSet : args' = a
    /\ boot' = "parsed"
    /\ UNCHANGED <<home, fs, environment, files, cfg, entered, logs>>

\* init_config, the first statement of run_daemon and of every command.
InitConfig ==
    /\ boot = "parsed"
    /\ LET found == find_config_files(args.config, home)
           res == parse_config(found)
           got == unwrap_or(res, DefaultConfig)
       IN /\ files' = found
          /\ logs' = IF res[1] = "Err"
                     THEN Append(logs, ChangeContext(res[2], "LoadConfig"))
                     ELSE logs
          /\ cfg' = got
          /\ boot' = IF got = <<>> THEN "panicked" ELSE "configured"
    /\ UNCHANGED <<home, fs, environment, args, entered>>

\* run_daemon: run(cfg, expand_home_dir(args.state)).
RunDaemon ==
    /\ boot = "configured"
    /\ IsDaemon(args)
    /\ entered' = <<[entry |-> "daemon", cfg |-> cfg[1],
                    state_path |-> expand_home_dir(args.state, home)]>>
    /\ boot' = "entered"
    /\ UNCHANGED <<home, fs, environment, args, files, cfg, logs>>

\* bond_worker, declare_chain_support, register_public_key, worker_address:
\* cli::<command>(cfg, args.state.clone(), ...).
RunCommand ==
    /\ boot = "configured"
    /\ ~IsDaemon(args)
    /\ entered' = <<[entry |-> args.cmd[1], cfg |-> cfg[1],
                    state_path |-> args.state]>>
    /\ boot' = "entered"
    /\ UNCHANGED <<home, fs, environment, args, files, cfg, logs>>

StartupIdle ==
    /\ home = <<>>
    /\ fs = [f \in ConfigFiles |-> "missing"]
    /\ environment = "good"
    /\ args = NoArgs
    /\ boot = "start"
    /\ files = <<>>
    /\ cfg = <<>>
    /\ entered = <<>>
    /\ logs = <<>>

CommandsIdle ==
    /\ pc = [r \in Runs |-> "init"]
    /\ cmd = [r \in Runs |-> NoCmd]
    /\ state = [r \in Runs |-> NoStateUpdater]
    /\ key = [r \in Runs |-> <<>>]
    /\ payload = [r \in Runs |-> <<>>]
    /\ tx = [r \in Runs |-> <<>>]
    /\ account = [r \in Runs |-> <<>>]
    /\ broadcaster = [r \in Runs |-> <<>>]
    /\ envelope = [r \in Runs |-> <<>>]
    /\ report = [r \in Runs |-> NoReport]
    /\ exit = [r \in Runs |-> "running"]
    /\ trace = [r \in Runs |-> <<>>]
    /\ disk = <<>>
    /\ chain = FundedChain
    /\ launched = 0

StartupInit ==
    /\ home \in {<<>>, <<Home>>}
    /\ fs \in [ConfigFiles -> {"missing", "good", "bad"}]
    /\ environment \in {"good", "bad"}
    /\ args = NoArgs
    /\ boot = "start"
    /\ files = <<>>
    /\ cfg = <<>>
    /\ entered = <<>>
    /\ logs = <<>>
    /\ CommandsIdle

StartupNext ==
    \/ ParseArgs /\ UNCHANGED cmdVars
    \/ InitConfig /\ UNCHANGED cmdVars
    \/ RunDaemon /\ UNCHANGED cmdVars
    \/ RunCommand /\ UNCHANGED cmdVars

StartupSpec == StartupInit /\ [][StartupNext]_vars

(***************************************************************************)
(* The commands                                                            *)
(***************************************************************************)
CommandsInit ==
    /\ pc = [r \in Runs |-> "init"]
    /\ cmd = [r \in Runs |-> NoCmd]
    /\ state = [r \in Runs |-> NoStateUpdater]
    /\ key = [r \in Runs |-> <<>>]
    /\ payload = [r \in Runs |-> <<>>]
    /\ tx = [r \in Runs |-> <<>>]
    /\ account = [r \in Runs |-> <<>>]
    /\ broadcaster = [r \in Runs |-> <<>>]
    /\ envelope = [r \in Runs |-> <<>>]
    /\ report = [r \in Runs |-> NoReport]
    /\ exit = [r \in Runs |-> "running"]
    /\ trace = [r \in Runs |-> <<>>]
    /\ disk \in {<<>>, <<Keygen(KeyUid)>>, <<OldKey>>}
    /\ chain \in {FundedChain, UnfundedChain}
    /\ launched = 0

Init == CommandsInit /\ StartupIdle

Next ==
    \E r \in Runs :
        \/ Launch(r) /\ UNCHANGED startupVars
        \/ ConnectSigner(r) /\ UNCHANGED startupVars
        \/ OpenState(r) /\ UNCHANGED startupVars
        \/ KeygenStep(r) /\ UNCHANGED startupVars
        \/ PrintAddress(r) /\ UNCHANGED startupVars
        \/ FindMultisig(r) /\ UNCHANGED startupVars
        \/ MultisigKeygen(r) /\ UNCHANGED startupVars
        \/ Assemble(r) /\ UNCHANGED startupVars
        \/ ConnectQuery(r) /\ UNCHANGED startupVars
        \/ AccountQuery(r) /\ UNCHANGED startupVars
        \/ ConnectService(r) /\ UNCHANGED startupVars
        \/ BroadcastSign(r) /\ UNCHANGED startupVars
        \/ BroadcastSubmit(r) /\ UNCHANGED startupVars

Spec == Init /\ [][Next]_vars

(***************************************************************************)
(* Observations on a run, read off the call log                            *)
(***************************************************************************)
Last(s) == s[Len(s)]

\* The run's pub_key() issued a keygen for the configured key uid and got a key.
FirstTimeKeygen(r) ==
    \E i \in 1..Len(trace[r]) :
        /\ trace[r][i].ev = "keygen"
        /\ trace[r][i].arg = <<KeyUid>>
        /\ trace[r][i].res = "ok"

\* The run's pub_key() opened a state file that held no key / held a key.
OpenedEmpty(r) ==
    \E i \in 1..Len(trace[r]) :
        /\ trace[r][i].ev = "open_state"
        /\ trace[r][i].res = "ok"
        /\ trace[r][i].arg = <<>>
OpenedPopulated(r) ==
    \E i \in 1..Len(trace[r]) :
        /\ trace[r][i].ev = "open_state"
        /\ trace[r][i].res = "ok"
        /\ trace[r][i].arg # <<>>

\* The run's last call was the account query and it answered err.
AccountFailed(r, err) ==
    /\ exit[r] = "PANIC"
    /\ trace[r] # <<>>
    /\ Last(trace[r]).ev = "account"
    /\ Last(trace[r]).res = err

IsPrefix(s, t) == Len(s) <= Len(t) /\ \A i \in 1..Len(s) : s[i] = t[i]

\* The pipeline stage an entry of the call log completes, "" for none.
StageOf(e) ==
    CASE e.ev = "open_state" /\ e.res = "ok" /\ e.arg # <<>> -> "KeyResolved"
      [] e.ev = "keygen" /\ e.res = "ok" /\ e.arg = <<KeyUid>> -> "KeyResolved"
      [] e.ev = "account" /\ e.res = "ok" -> "AccountResolved"
      [] e.ev = "assemble" -> "Assembled"
      [] e.ev = "sign" /\ e.res = "ok" -> "Signed"
      [] e.ev = "submit" -> "Submitted"
      [] OTHER -> ""

StageSeq(r) ==
    LET done == SelectSeq(trace[r], LAMBDA e : StageOf(e) # "")
    IN [i \in 1..Len(done) |-> StageOf(done[i])]

\* The run's pub_key() issued a keygen for the configured key uid that failed.
KeygenFailed(r) ==
    \E i \in 1..Len(trace[r]) :
        /\ trace[r][i].ev = "keygen"
        /\ trace[r][i].arg = <<KeyUid>>
        /\ trace[r][i].res # "ok"

\* The run's pub_key() could not open the state file.
OpenFailed(r) ==
    \E i \in 1..Len(trace[r]) :
        /\ trace[r][i].ev = "open_state"
        /\ trace[r][i].res # "ok"

(***************************************************************************)
(* Claims                                                                  *)
(***************************************************************************)

\* C1: a run whose key resolution found no cached key and obtained one from
\* keygen has stored that key in its state and written it to the state file
\* exactly once, and the file holds the key from then on, so also when the
\* process has exited, with success or with a panic.
C1_KeygenPersisted ==
    \A r \in Runs :
        FirstTimeKeygen(r) =>
            /\ state[r].pub_key = <<Keygen(KeyUid)>>
            /\ key[r] = state[r].pub_key
            /\ disk = key[r]
            /\ Count(r, "write") = 1
            /\ Last(Select(trace[r], "write")).arg = key[r]

C1_Witness ==
    \E r \in Runs :
        /\ FirstTimeKeygen(r)
        /\ exit[r] = "PANIC"
        /\ disk = <<Keygen(KeyUid)>>

\* C2 (as claimed): a run whose first submission was rejected with a
\* sequence mismatch has queried the account again, submitted a second time
\* and ended with success.
C2_SequenceMismatchRecovered ==
    \A r \in Runs :
        (/\ Exited(r)
         /\ Count(r, "submit") >= 1
         /\ Select(trace[r], "submit")[1].res = "SequenceMismatch")
        => /\ Count(r, "account") = 2
           /\ Count(r, "submit") = 2
           /\ exit[r] = "SUCCESS"

\* C3 (as claimed): no two runs capture the same sequence number of the same
\* account and both submit with it; stated for the case that only overlapping
\* read/submit cycles produce: the chain accepted one of the two submissions
\* and answered the other with a sequence mismatch.
C3_SequenceCycleSerialized ==
    \A r1, r2 \in Runs :
        (/\ r1 # r2
         /\ Count(r1, "submit") = 1 /\ Last(trace[r1]).res = "ok"
         /\ Count(r2, "submit") = 1 /\ Last(trace[r2]).res = "SequenceMismatch"
         /\ envelope[r1][1].signer = envelope[r2][1].signer)
        => ~(/\ account[r1][1].sequence = account[r2][1].sequence
             /\ envelope[r1][1].sequence = account[r1][1].sequence
             /\ envelope[r2][1].sequence = account[r2][1].sequence)

\* C4: when one run resolved the key against an empty state file and another
\* run resolved it against the populated file, both hold the same key and
\* the two runs issued exactly one keygen for the configured key uid.
C4_IdempotentKeyResolution ==
    \A r1, r2 \in Runs :
        (/\ r1 # r2
         /\ OpenedEmpty(r1) /\ key[r1] # <<>>
         /\ OpenedPopulated(r2) /\ key[r2] # <<>>)
        => /\ key[r1] = key[r2]
           /\ KeygenCount(r1, KeyUid) + KeygenCount(r2, KeyUid) = 1

C4_Witness ==
    \E r1, r2 \in Runs :
        /\ r1 # r2
        /\ OpenedEmpty(r1) /\ key[r1] # <<>>
        /\ OpenedPopulated(r2) /\ key[r2] # <<>>
        /\ KeygenCount(r1, KeyUid) = 1

\* C5: a built broadcaster carries the account number and sequence answered
\* by the single account query of its run, which asked for the address of
\* the resolved key under the prefix "axelar"; a broadcasting run that ended
\* with success made exactly one submit call.
C5_FreshAccountOneSubmit ==
    \A r \in Runs :
        /\ broadcaster[r] # <<>> =>
              LET q == Select(trace[r], "account") IN
              /\ Len(q) = 1
              /\ q[1].res = "ok"
              /\ q[1].arg = <<"axelar", Hash160(key[r][1])>>
              /\ account[r] # <<>>
              /\ broadcaster[r][1].acc_number = account[r][1].account_number
              /\ broadcaster[r][1].acc_sequence = account[r][1].sequence
        /\ (exit[r] = "SUCCESS" /\ cmd[r].kind \in Broadcasting) =>
              Count(r, "submit") = 1

C5_Witness ==
    \E r \in Runs :
        /\ exit[r] = "SUCCESS"
        /\ cmd[r].kind = "bond_worker"
        /\ broadcaster[r] # <<>>
        /\ broadcaster[r][1].acc_number = 7
        /\ broadcaster[r][1].acc_sequence = 3
        /\ Count(r, "submit") = 1

\* C6: within a run, a state whose pub_key is set keeps that value in every
\* step; a step assigns pub_key only when it was empty.
C6_NeverOverwrite ==
    [][\A r \in Runs :
          (state[r].pub_key # <<>> /\ ~Exited(r))
          => state'[r].pub_key = state[r].pub_key]_vars

C6_Witness ==
    \E r \in Runs :
        /\ state[r].pub_key = <<OldKey>>
        /\ cmd[r].kind \in Broadcasting
        /\ exit[r] = "SUCCESS"

\* C7 (as claimed): a bond-worker or declare-chain-support run given an empty
\* service name or a malformed contract address makes no RPC and never ends
\* with success.
C7_FailFastOnInvalidInput ==
    \A r \in Runs :
        (/\ cmd[r].kind \in {"bond_worker", "declare_chain_support"}
         /\ \/ cmd[r].service_name = ""
            \/ cmd[r].service_registry = "not-an-address")
        => /\ RpcCount(r) = 0
           /\ exit[r] # "SUCCESS"

\* C8: a run stopped by a NotFound answer of the account query and a run
\* stopped by a transport failure of that query end with different error
\* reports, and the NotFound report names the missing account.
C8_NotFoundDistinct ==
    \A r1, r2 \in Runs :
        (AccountFailed(r1, "NotFound") /\ AccountFailed(r2, "Transport"))
        => /\ report[r1] # report[r2]
           /\ \E i \in 1..Len(report[r1]) : report[r1][i] = "NotFound"
           /\ \A i \in 1..Len(report[r2]) : report[r2][i] # "NotFound"

C8_Witness ==
    \E r1, r2 \in Runs :
        /\ AccountFailed(r1, "NotFound")
        /\ AccountFailed(r2, "Transport")
        /\ Last(trace[r1]).arg = Last(trace[r2]).arg

\* C9: a run that ended with ExitCode::SUCCESS had valid arguments, found
\* the handler it needed, and every call it made answered ok: no failed
\* connect, state open, keygen, account query, sign or submit precedes a
\* success exit.
C9_FailuresPropagated ==
    \A r \in Runs :
        exit[r] = "SUCCESS" =>
            /\ \A i \in 1..Len(trace[r]) : trace[r][i].res = "ok"
            /\ cmd[r].service_registry # "not-an-address"
            /\ cmd[r].denom = "uaxl"
            /\ cmd[r].kind = "register_public_key" => cmd[r].handlers # <<>>
            /\ report[r] = NoReport

C9_Witness ==
    \E r \in Runs :
        /\ exit[r] = "PANIC"
        /\ trace[r] # <<>>
        /\ Last(trace[r]).ev = "submit"
        /\ Last(trace[r]).res = "Other"

\* C10 (as claimed): the stages a broadcasting run has completed are an
\* initial part of KeyResolved, AccountResolved, Assembled, Signed, Submitted.
C10_StagesAsClaimed ==
    \A r \in Runs :
        cmd[r].kind \in Broadcasting =>
            IsPrefix(StageSeq(r), <<"KeyResolved", "AccountResolved", "Assembled",
                                    "Signed", "Submitted">>)

\* C10 (amended): the stages a broadcasting run has completed are an initial
\* part of KeyResolved, Assembled, AccountResolved, Signed, Submitted, and a
\* run that reached submission has completed all five.
C10_StagesInCodeOrder ==
    \A r \in Runs :
        cmd[r].kind \in Broadcasting =>
            /\ IsPrefix(StageSeq(r), <<"KeyResolved", "Assembled", "AccountResolved",
                                       "Signed", "Submitted">>)
            /\ Count(r, "submit") >= 1 => Len(StageSeq(r)) = 5

C10_Witness ==
    \E r \in Runs :
        /\ cmd[r].kind = "register_public_key"
        /\ StageSeq(r) = <<"KeyResolved", "Assembled", "AccountResolved",
                           "Signed", "Submitted">>
        /\ exit[r] = "SUCCESS"

\* C11: a run whose keygen for the configured key uid failed has stopped with
\* a panic carrying the Tofnd error, the failed keygen is its last call, it
\* made no account query, sign request or submission, and its state holds
\* no public key.
C11_KeygenFailureAborts ==
    \A r \in Runs :
        KeygenFailed(r) =>
            /\ exit[r] = "PANIC"
            /\ report[r] # <<>> /\ report[r][1] = "Tofnd"
            /\ Last(trace[r]).ev = "keygen"
            /\ Count(r, "account") = 0
            /\ Count(r, "sign") = 0
            /\ Count(r, "submit") = 0
            /\ state[r].pub_key = <<>>
            /\ key[r] = <<>>

C11_Witness ==
    \E r \in Runs :
        /\ KeygenFailed(r)
        /\ cmd[r].kind = "bond_worker"
        /\ exit[r] = "PANIC"

\* C12: a run whose state file could not be opened has stopped with a panic
\* carrying the StateUpdater error; the failed open is its last call, and it
\* issued no keygen, account query, sign request or submission.
C12_UnreadableStateIsFatal ==
    \A r \in Runs :
        OpenFailed(r) =>
            /\ exit[r] = "PANIC"
            /\ report[r] # <<>> /\ report[r][1] = "StateUpdater"
            /\ Last(trace[r]).ev = "open_state"
            /\ Count(r, "keygen") = 0
            /\ Count(r, "account") = 0
            /\ Count(r, "sign") = 0
            /\ Count(r, "submit") = 0
            /\ key[r] = <<>>

C12_Witness ==
    \E r \in Runs :
        /\ OpenFailed(r)
        /\ Last(trace[r]).res = "Parse"
        /\ disk = <<OldKey>>
        /\ exit[r] = "PANIC"

\* C13 (as claimed): every run that ended with success, whatever its command,
\* has built exactly one broadcaster and called broadcast exactly once.
C13_EveryIntentBroadcasts ==
    \A r \in Runs :
        exit[r] = "SUCCESS" =>
            /\ broadcaster[r] # <<>>
            /\ Count(r, "connect_service") = 1
            /\ Count(r, "sign") = 1

\* C13 (amended): a bond-worker, declare-chain-support or register-public-key
\* run that ended with success has built exactly one broadcaster and called
\* broadcast exactly once (one sign request, one submission); a
\* worker-address run that ended with success has built no broadcaster and
\* made no sign request or submission.
C13_BroadcastingIntentsBroadcastOnce ==
    \A r \in Runs :
        exit[r] = "SUCCESS" =>
            IF cmd[r].kind \in Broadcasting
            THEN /\ broadcaster[r] # <<>>
                 /\ Count(r, "connect_service") = 1
                 /\ Count(r, "sign") = 1
                 /\ Count(r, "submit") = 1
            ELSE /\ broadcaster[r] = <<>>
                 /\ Count(r, "connect_service") = 0
                 /\ Count(r, "sign") = 0
                 /\ Count(r, "submit") = 0

C13_Witness ==
    \E r \in Runs :
        /\ exit[r] = "SUCCESS"
        /\ cmd[r].kind = "declare_chain_support"
        /\ broadcaster[r] # <<>>
        /\ Count(r, "submit") = 1

\* C14: a run whose pub_key() opened a state file holding a key has exactly
\* that key as its public key, has issued no keygen for the configured key
\* uid, and its state is the one it loaded, unmodified.
C14_CachedKeyIsPureRead ==
    \A r \in Runs :
        OpenedPopulated(r) =>
            LET loaded == Select(trace[r], "open_state")[1].arg IN
            /\ key[r] = loaded
            /\ KeygenCount(r, KeyUid) = 0
            /\ state[r] = [pub_key |-> loaded, dirty |-> FALSE]

C14_Witness ==
    \E r \in Runs :
        /\ OpenedPopulated(r)
        /\ key[r] = <<OldKey>>
        /\ exit[r] = "SUCCESS"

\* C15: a built broadcaster holds the configured key uid "op-key" and the
\* public key the run resolved, the transaction's sender is the address of
\* that public key under "axelar", and a sign request names that key uid; in
\* register-public-key the key obtained for the multisig address is the
\* message's payload and is neither the broadcaster's key nor the sender's.
C15_SigningKeyConsistent ==
    \A r \in Runs :
        broadcaster[r] # <<>> =>
            LET b == broadcaster[r][1] IN
            /\ b.key_uid = "op-key"
            /\ b.pub_key = key[r][1]
            /\ tx[r] # <<>>
            /\ tx[r][1].sender = <<"axelar", Hash160(b.pub_key)>>
            /\ \A i \in 1..Len(trace[r]) :
                  trace[r][i].ev = "sign" => trace[r][i].arg = <<"op-key">>
            /\ envelope[r] # <<>> => envelope[r][1].signer = tx[r][1].sender
            /\ cmd[r].kind = "register_public_key" =>
                  /\ payload[r] # <<>>
                  /\ tx[r][1].msg.public_key = payload[r]
                  /\ payload[r][1] # b.pub_key
                  /\ tx[r][1].sender # <<"axelar", Hash160(payload[r][1])>>
            /\ cmd[r].kind # "register_public_key" => tx[r][1].msg.public_key = <<>>

C15_Witness ==
    \E r \in Runs :
        /\ cmd[r].kind = "register_public_key"
        /\ envelope[r] # <<>>
        /\ exit[r] = "SUCCESS"

\* C16: in a register-public-key run every keygen other than the one for the
\* configured key uid names the first configured MultisigSigner contract,
\* and the built transaction has that contract as its target and the key of
\* that keygen as its payload; a run without a MultisigSigner handler makes
\* no such keygen, no account query, sign request or submission and never
\* ends with success.
C16_RegisterTargetsFirstMultisig ==
    \A r \in Runs :
        cmd[r].kind = "register_public_key" =>
            LET hs == cmd[r].handlers IN
            /\ hs = <<>> =>
                  /\ Count(r, "keygen") = KeygenCount(r, KeyUid)
                  /\ Count(r, "account") = 0
                  /\ Count(r, "sign") = 0
                  /\ Count(r, "submit") = 0
                  /\ tx[r] = <<>>
                  /\ exit[r] # "SUCCESS"
            /\ hs # <<>> =>
                  /\ \A i \in 1..Len(trace[r]) :
                        (trace[r][i].ev = "keygen" /\ trace[r][i].arg # <<KeyUid>>)
                        => trace[r][i].arg = <<hs[1]>>
                  /\ tx[r] # <<>> =>
                        /\ tx[r][1].contract = hs[1]
                        /\ KeygenCount(r, hs[1]) = 1
                        /\ tx[r][1].msg.action = "RegisterPublicKey"
                        /\ tx[r][1].msg.public_key = payload[r]
                        /\ payload[r] # <<>>

C16_Witness ==
    \E r \in Runs :
        /\ cmd[r].kind = "register_public_key"
        /\ Len(cmd[r].handlers) = 2
        /\ tx[r] # <<>>
        /\ exit[r] = "SUCCESS"

\* C17: a worker-address run makes no call other than one signer connect,
\* the state open and at most one keygen, which is for the configured key
\* uid and is made only when the opened state held no key; it sets the
\* cached key only then, and it builds no transaction, account, broadcaster
\* or envelope.
C17_WorkerAddressFrame ==
    \A r \in Runs :
        cmd[r].kind = "worker_address" =>
            /\ \A i \in 1..Len(trace[r]) :
                  trace[r][i].ev \in {"connect_signer", "open_state", "keygen",
                                      "write", "print"}
            /\ Count(r, "connect_signer") <= 1
            /\ Count(r, "keygen") <= 1
            /\ Count(r, "keygen") = KeygenCount(r, KeyUid)
            /\ Count(r, "keygen") = 1 => OpenedEmpty(r)
            /\ Count(r, "write") <= Count(r, "keygen")
            /\ state[r].dirty => OpenedEmpty(r)
            /\ tx[r] = <<>>
            /\ account[r] = <<>>
            /\ broadcaster[r] = <<>>
            /\ envelope[r] = <<>>

C17_Witness ==
    \E r \in Runs :
        /\ cmd[r].kind = "worker_address"
        /\ Count(r, "keygen") = 1
        /\ Count(r, "print") = 1
        /\ exit[r] = "SUCCESS"

(***************************************************************************)
(* Observations on the start of a process                                  *)
(***************************************************************************)
\* The file a --config path names after expand_home_dir, and whether it exists.
Named(path) == Absolute(expand_home_dir(path, home))
Present(path) == Named(path) \in DOMAIN fs /\ fs[Named(path)] # "missing"
ParseFails ==
    \/ environment = "bad"
    \/ \E i \in 1..Len(args.config) :
          Present(args.config[i]) /\ fs[Named(args.config[i])] = "bad"
TildeExpands(path) == path # <<>> /\ path[1] = "~" /\ home # <<>>

\* C18: configuration loading never ends the process.  The files it loads
\* are exactly the --config paths that name an existing file, in order; when
\* a loaded file or the environment does not parse, the error is logged
\* under LoadConfig and the Config is Config::default(); and the daemon or
\* command is entered with the Config init_config returned.
C18_ConfigLoadingNeverAborts ==
    /\ boot # "panicked"
    /\ boot \in {"configured", "entered"} =>
          LET kept == {i \in 1..Len(args.config) : Present(args.config[i])} IN
          /\ Len(files) = Cardinality(kept)
          /\ \A i \in 1..Len(files) : Contents(files[i]) # "missing"
          /\ \A i \in kept : \E k \in 1..Len(files) :
                /\ files[k] = Named(args.config[i])
                /\ k = Cardinality({j \in kept : j <= i})
          /\ cfg # <<>>
          /\ IF ParseFails
             THEN /\ cfg = <<DefaultConfig>>
                  /\ logs = << <<"LoadConfig", "ConfigError">> >>
             ELSE /\ cfg = <<[files |-> files]>>
                  /\ logs = <<>>
    /\ boot = "entered" => entered # <<>> /\ entered[1].cfg = cfg[1]

\* A command is entered with the default Config after one --config path
\* was skipped and the other named a file that does not parse.
C18_Witness ==
    /\ boot = "entered"
    /\ entered[1].entry = "bond_worker"
    /\ Len(args.config) = 2
    /\ ~Present(args.config[1])
    /\ Present(args.config[2])
    /\ fs[Named(args.config[2])] = "bad"
    /\ entered[1].cfg = DefaultConfig
    /\ files # <<>>

\* C19: the daemon is entered with the --state path whose first component
\* "~" is replaced by the home directory when one is known, and with the
\* --state path itself otherwise; every command is entered with the --state
\* path itself.  So the daemon's state file is the commands' exactly when
\* the first component is not "~" or no home directory is known.
C19_StatePathPerEntryPoint ==
    boot = "entered" =>
        LET raw == args.state
            opened == entered[1].state_path
        IN IF entered[1].entry = "daemon"
           THEN /\ opened = IF TildeExpands(raw)
                            THEN home[1] \o Tail(raw) ELSE raw
                /\ (Absolute(opened) = Absolute(raw)) <=> ~TildeExpands(raw)
           ELSE /\ entered[1].entry \in Kinds
                /\ opened = raw

\* The daemon is entered with the default --state path and a known home.
C19_Witness ==
    /\ boot = "entered"
    /\ entered[1].entry = "daemon"
    /\ args.state = <<"~", ".ampd", "state.json">>
    /\ home = <<Home>>
    /\ entered[1].state_path = <<"/", "home", "op", ".ampd", "state.json">>

====
